---------------------------- MODULE Spec2Model ----------------------------
(***************************************************************************)
(* A model of the vendor-sheet -> Shopify-CSV converter.                   *)
(*                                                                         *)
(*   services/processor.ts  (src/unnamed/part_000, lines 1..557)           *)
(*       slugify, detectHeaderRow, cleanPrice, roundToNearest9,            *)
(*       findColByNames, detectImageColumns, detectSizeColumns,            *)
(*       getBoyAgeGroupTags, getGirlAgeGroupTags, processSingleFile,       *)
(*       processFiles                                                      *)
(*   App.tsx, components/FileUploader.tsx                                  *)
(*       the batch state machine around processFiles                       *)
(*                                                                         *)
(* Text is modelled as a sequence of one-character strings, so that trim,  *)
(* toLowerCase, includes, replace and parseFloat are computed and not      *)
(* assumed.  Four specifications share the variables:                      *)
(*   Spec      - the UI and processFiles (one task per file, interleaved)  *)
(*   SpecFile  - processSingleFile on one parsed table, record by record   *)
(*   SpecPrice - cleanPrice / roundToNearest9 on one price text            *)
(*   SpecHelper - one call of detectHeaderRow, findColByNames or the age   *)
(*               bracket functions                                         *)
(***************************************************************************)
EXTENDS Integers, Sequences, FiniteSets, TLC

VARIABLES
    \* ---- App.tsx state (useState hooks) and the archive being built
    files,        \* File[]                       App.tsx:9
    category,     \* Category | null              App.tsx:10
    status,       \* ProcessingStatus             App.tsx:11
    error,        \* string | null                App.tsx:12
    result,       \* ProcessedResult | null       App.tsx:13
    zip,          \* the JSZip container          part_000:537
    tasks,        \* per file task: "pending" | "settled"   part_000:539
    pfpc,         \* position of processFiles
    batch,        \* the files array processFiles was called with (closure)
    \* ---- processSingleFile on one table
    fpc,          \* position of processSingleFile
    rawData,      \* results.data                 part_000:247
    headerRow,    \* part_000:254
    roleMap,      \* the column mapping          part_000:272-300
    df,           \* part_000:260
    recIdx,       \* index of the next df record of the forEach at :319
    lastRows,     \* rows pushed by the record processed last
    outRows,      \* part_000:317
    csv,          \* the text the promise resolved with
    \* ---- price helpers
    ppc,          \* position of the price pipeline
    rawPrice,     \* the cell text given to cleanPrice
    cleaned,      \* cleanPrice(rawPrice)
    rounded,      \* roundToNearest9(cleaned)
    \* ---- one call of a helper function
    hpc,          \* position of the call
    hargs,        \* the arguments of the call
    hret          \* the value returned

uiVars    == <<files, category, status, error, result, zip, tasks, pfpc, batch>>
fileVars  == <<fpc, rawData, headerRow, roleMap, df, recIdx, lastRows, outRows, csv>>
priceVars == <<ppc, rawPrice, cleaned, rounded>>
helperVars == <<hpc, hargs, hret>>
vars      == <<uiVars, fileVars, priceVars, helperVars>>

-----------------------------------------------------------------------------
(* Bounds of the model *)

\* largest integer price text drawn as an input of SpecPrice
MaxPrice == 160
\* most files a batch holds
MaxFiles == 3
\* most data records below the header row of a table
MaxRecords == 1
\* most rows of a table given to detectHeaderRow on its own
MaxTableRows == 10
\* most headers of a header row given to findColByNames on its own
MaxCols == 3
\* most variants given to the age bracket functions on their own
MaxVariants == 2

-----------------------------------------------------------------------------
(* Text: characters and the String.prototype operations the code uses *)

Max(a, b) == IF a >= b THEN a ELSE b
Min(a, b) == IF a <= b THEN a ELSE b

Range(s) == { s[i] : i \in DOMAIN s }

DigitChars == <<"0","1","2","3","4","5","6","7","8","9">>
Digits == Range(DigitChars)
LowerLetters == {"a","b","c","d","e","f","g","h","i","j","k","l","m",
                 "n","o","p","q","r","s","t","u","v","w","x","y","z"}
UpperChars == <<"A","B","C","D","E","F","G","H","I","J","K","L","M",
                "N","O","P","Q","R","S","T","U","V","W","X","Y","Z">>
LowerChars == <<"a","b","c","d","e","f","g","h","i","j","k","l","m",
                "n","o","p","q","r","s","t","u","v","w","x","y","z">>
UpperLetters == Range(UpperChars)
\* \s of the regular expressions, and what trim() strips
Whitespace == {" ", "\t", "\n", "\r"}

IsDigit(c) == c \in Digits
IsSpace(c) == c \in Whitespace

\* one character of String.prototype.toLowerCase
LowerChar(c) ==
    IF c \in UpperLetters
    THEN LowerChars[CHOOSE i \in DOMAIN UpperChars : UpperChars[i] = c]
    ELSE c

toLowerCase(s) == [i \in DOMAIN s |-> LowerChar(s[i])]

\* number of leading / trailing whitespace characters
RECURSIVE LeadingSpaces(_)
LeadingSpaces(s) ==
    IF s = <<>> \/ ~IsSpace(Head(s)) THEN 0 ELSE 1 + LeadingSpaces(Tail(s))

RECURSIVE TrailingSpaces(_)
TrailingSpaces(s) ==
    IF s = <<>> \/ ~IsSpace(s[Len(s)]) THEN 0
    ELSE 1 + TrailingSpaces(SubSeq(s, 1, Len(s) - 1))

\* String.prototype.trim
trim(s) ==
    LET a == LeadingSpaces(s)
    IN  IF a = Len(s) THEN <<>>
        ELSE SubSeq(s, a + 1, Len(s) - TrailingSpaces(s))

\* String.prototype.includes
includes(s, sub) ==
    \E i \in 0..(Len(s) - Len(sub)) : SubSeq(s, i + 1, i + Len(sub)) = sub

\* Array.prototype.includes on an array of texts
arrayIncludes(arr, x) == \E i \in DOMAIN arr : arr[i] = x

\* String(n) of a non-negative integer
RECURSIVE NatStr(_)
NatStr(n) ==
    IF n < 10 THEN <<DigitChars[n + 1]>>
    ELSE NatStr(n \div 10) \o <<DigitChars[(n % 10) + 1]>>

\* String(n) of an integer (String(-0) is "0")
IntStr(n) == IF n < 0 THEN <<"-">> \o NatStr(-n) ELSE NatStr(n)

DigitVal(c) == (CHOOSE i \in DOMAIN DigitChars : DigitChars[i] = c) - 1

\* value of a run of digits
RECURSIVE DigitsVal(_)
DigitsVal(s) ==
    IF s = <<>> THEN 0
    ELSE DigitsVal(SubSeq(s, 1, Len(s) - 1)) * 10 + DigitVal(s[Len(s)])

\* length of the run of digits of s that starts at position i
RECURSIVE DigitRun(_, _)
DigitRun(s, i) ==
    IF i > Len(s) \/ ~IsDigit(s[i]) THEN 0 ELSE 1 + DigitRun(s, i + 1)

RECURSIVE Pow10(_)
Pow10(k) == IF k = 0 THEN 1 ELSE 10 * Pow10(k - 1)

(***************************************************************************)
(* parseFloat: the longest prefix of the text (leading whitespace skipped) *)
(* that is [+-]? digits [. digits], or NaN when that prefix has no digit.  *)
(* The value is (neg ? -1 : 1) * num / den, den a power of ten.  Exponent  *)
(* parts and "Infinity" are outside the texts the model draws.             *)
(***************************************************************************)
parseFloat(text) ==
    LET s    == SubSeq(text, LeadingSpaces(text) + 1, Len(text))
        sgn  == IF s # <<>> /\ s[1] \in {"+", "-"} THEN 1 ELSE 0
        neg  == sgn = 1 /\ s[1] = "-"
        ni   == DigitRun(s, sgn + 1)
        dot  == sgn + ni + 1 <= Len(s) /\ s[sgn + ni + 1] = "."
        nf   == IF dot THEN DigitRun(s, sgn + ni + 2) ELSE 0
        ip   == SubSeq(s, sgn + 1, sgn + ni)
        fp   == SubSeq(s, sgn + ni + 2, sgn + ni + 1 + nf)
    IN  IF ni + nf = 0
        THEN [nan |-> TRUE, neg |-> FALSE, num |-> 0, den |-> 1]
        ELSE [nan |-> FALSE, neg |-> neg,
              num |-> DigitsVal(ip) * Pow10(nf) + DigitsVal(fp),
              den |-> Pow10(nf)]

\* Number.isInteger
isInteger(f) == ~f.nan /\ f.num % f.den = 0

\* String(f) of an integer-valued number
IntegerStr(f) ==
    LET n == f.num \div f.den
    IN  IF f.neg /\ n # 0 THEN <<"-">> \o NatStr(n) ELSE NatStr(n)

-----------------------------------------------------------------------------
(* PriceNormalizer: part_000:52-88 *)

IsPriceChar(c) == IsDigit(c) \/ c \in {".", "-"}

\* cleanPrice of a cell text (every caller passes a string: part_000:263)
cleanPrice(x) ==
    LET s  == trim(x)
        s2 == SelectSeq(s, IsPriceChar)
    IN  IF s = <<>> THEN <<>>
        ELSE IF s2 = <<>> THEN <<>>
        ELSE LET f == parseFloat(s2)
             IN  IF isInteger(f) THEN IntegerStr(f) ELSE s2

\* roundToNearest9 with the Math.max(0, ...) of line 84 dropped
roundToNearest9_NoClamp(priceStr) ==
    IF trim(priceStr) = <<>> THEN <<>>
    ELSE LET f == parseFloat(priceStr)
         IN  IF f.nan \/ f.neg \/ f.num = 0 THEN priceStr
             ELSE IntStr(((f.num + 5 * f.den) \div (10 * f.den)) * 10 - 1)

roundToNearest9(priceStr) ==
    IF trim(priceStr) = <<>> THEN <<>>
    ELSE LET f == parseFloat(priceStr)
         IN  IF f.nan \/ f.neg \/ f.num = 0 THEN priceStr
             ELSE LET r == ((f.num + 5 * f.den) \div (10 * f.den)) * 10 - 1
                  IN  IntStr(Max(0, r))

-----------------------------------------------------------------------------
(* Constants & configuration: part_000:9-28 *)

TEMPLATE_COLS == <<
    "Title", "URL handle", "Description", "Vendor", "Product category", "Type", "Tags",
    "Published on online store", "Status", "SKU", "Barcode",
    "Option1 name", "Option1 value", "Option2 name", "Option2 value", "Option3 name", "Option3 value",
    "Price", "Compare-at price", "Cost per item", "Charge tax", "Tax code",
    "Unit price total measure", "Unit price total measure unit", "Unit price base measure", "Unit price base measure unit",
    "Inventory tracker", "Variant Inventory Policy", "Inventory policy",
    "Continue selling when out of stock", "Inventory quantity",
    "Weight value (grams)", "Weight unit for display", "Requires shipping", "Fulfillment service",
    "Product image URL", "Image position", "Image alt text", "Variant image URL", "Gift card",
    "SEO title", "SEO description",
    "Google Shopping / Google product category", "Google Shopping / Gender", "Google Shopping / Age group",
    "Google Shopping / MPN", "Google Shopping / AdWords Grouping", "Google Shopping / AdWords labels",
    "Google Shopping / Condition", "Google Shopping / Custom product",
    "Google Shopping / Custom label 0", "Google Shopping / Custom label 1",
    "Google Shopping / Custom label 2", "Google Shopping / Custom label 3", "Google Shopping / Custom label 4",
    "Fabric", "Wash Care", "Material", "Shelf", "Test",
    "Variant Image", "Variant Weight Unit", "Variant Tax Code", "Shelf No", "Sizes" >>

\* the empty text, also what the model uses for null / undefined column names
\* (a resolved column name is never empty: part_000:254)
NULL == <<>>

S_nan     == <<"n","a","n">>
S_title   == <<"t","i","t","l","e">>
S_Default == <<"D","e","f","a","u","l","t">>
S_Size    == <<"S","i","z","e">>
S_TRUE    == <<"T","R","U","E">>
S_FALSE   == <<"F","A","L","S","E">>
S_Active  == <<"A","c","t","i","v","e">>
S_manual  == <<"m","a","n","u","a","l">>
S_zero    == <<"0">>

\* candidate names of the semantic roles: part_000:273-284
TitleNames     == <<<<"T","i","t","l","e">>, <<"P","r","o","d","u","c","t"," ","T","i","t","l","e">>, <<"N","a","m","e">>>>
BrandNames     == <<<<"B","r","a","n","d"," ","N","a","m","e">>, <<"V","e","n","d","o","r">>, <<"B","r","a","n","d">>>>
ProdcatNames   == <<<<"P","r","o","d","u","c","t"," ","c","a","t","e","g","o","r","y">>, <<"C","a","t","e","g","o","r","y">>>>
SubcatNames    == <<<<"S","u","b","c","a","t","e","g","o","r","y">>, <<"S","u","b"," ","C","a","t","e","g","o","r","y">>, <<"T","y","p","e">>>>
SubsubNames    == <<<<"S","u","b"," ","S","u","b"," ","C","a","t","e","g","o","r","y">>, <<"S","u","b","S","u","b","C","a","t","e","g","o","r","y">>>>
SeasonNames    == <<<<"S","e","a","s","o","n">>>>
CampaignNames  == <<<<"C","a","m","p","a","i","g","n">>>>
SizesNames     == <<<<"S","i","z","e","s">>, <<"S","i","z","e">>>>
CostNames      == <<<<"C","o","s","t"," ","t","o"," ","K","i","d","d","o">>, <<"C","o","s","t">>>>
MrpNames       == <<<<"M","R","P">>>>
FinalNames     == <<<<"S","e","l","l","i","n","g"," ","P","r","i","c","e">>>>
SizeChartNames == <<<<"S","i","z","e"," ","c","h","a","r","t">>, <<"S","i","z","e"," ","C","h","a","r","t">>, <<"S","i","z","e","c","h","a","r","t">>>>

\* part_000:372
SpecificationNames == <<<<"P","r","o","d","u","c","t"," ","S","p","e","c","i","f","c","a","t","i","o","n">>, <<"P","r","o","d","u","c","t"," ","S","p","e","c","i","f","i","c","a","t","i","o","n">>, <<"P","r","o","d","u","c","t"," ","s","p","e","c","i","f","i","c","a","t","i","o","n">>>>

\* part_000:302-313, in the insertion order Object.entries walks
optionalExtraCols == <<
    [key |-> "Fabric",    names |-> <<<<"F","a","b","r","i","c">>, <<"F","a","b","r","i","c"," ","(","p","r","o","d","u","c","t",".","m","e","t","a","f","i","e","l","d","s",".","c","u","s","t","o","m",".","f","a","b","r","i","c",")">>>>],
    [key |-> "Wash Care", names |-> <<<<"W","a","s","h"," ","C","a","r","e">>, <<"W","a","s","h"," ","c","a","r","e">>, <<"W","a","s","h"," ","C","a","r","e"," ","(","p","r","o","d","u","c","t",".","m","e","t","a","f","i","e","l","d","s",".","c","u","s","t","o","m",".","w","a","s","h","_","c","a","r","e",")">>>>],
    [key |-> "Material",  names |-> <<<<"M","a","t","e","r","i","a","l">>, <<"M","a","t","e","r","i","a","l"," ","(","p","r","o","d","u","c","t",".","m","e","t","a","f","i","e","l","d","s",".","c","u","s","t","o","m",".","m","a","t","e","r","i","a","l",")">>>>],
    [key |-> "Shelf",     names |-> <<<<"S","h","e","l","f">>, <<"S","h","e","l","f"," ","(","p","r","o","d","u","c","t",".","m","e","t","a","f","i","e","l","d","s",".","c","u","s","t","o","m",".","s","h","e","l","f",")">>>>],
    [key |-> "Test",      names |-> <<<<"T","e","s","t">>, <<"T","e","s","t"," ","(","p","r","o","d","u","c","t",".","m","e","t","a","f","i","e","l","d","s",".","c","u","s","t","o","m",".","t","e","s","t",")">>>>],
    [key |-> "Variant Image",       names |-> <<<<"V","a","r","i","a","n","t"," ","I","m","a","g","e">>, <<"V","a","r","i","a","n","t"," ","i","m","a","g","e">>>>],
    [key |-> "Variant Weight Unit", names |-> <<<<"V","a","r","i","a","n","t"," ","W","e","i","g","h","t"," ","U","n","i","t">>, <<"V","a","r","i","a","n","t"," ","w","e","i","g","h","t"," ","u","n","i","t">>>>],
    [key |-> "Variant Tax Code",    names |-> <<<<"V","a","r","i","a","n","t"," ","T","a","x"," ","C","o","d","e">>, <<"V","a","r","i","a","n","t"," ","t","a","x"," ","c","o","d","e">>>>],
    [key |-> "Shelf No",  names |-> <<<<"S","h","e","l","f"," ","N","o">>, <<"S","h","e","l","f"," ","N","u","m","b","e","r">>>>],
    [key |-> "Sizes",     names |-> <<<<"S","i","z","e","s">>, <<"S","i","z","e">>>>] >>

\* part_000:124-127
sizeCandidates == <<<<"N","B">>, <<"0","-","2","M">>, <<"2","-","4","M">>, <<"4","-","6","M">>, <<"0","-","3","M">>, <<"3","-","6","M">>, <<"6","-","9","M">>, <<"6","-","1","2","M">>, <<"9","-","1","2","M">>, <<"1","2","-","1","8","M">>, <<"1","8","-","2","4","M">>, <<"1","-","2","Y">>, <<"2","-","3","Y">>, <<"3","-","4","Y">>, <<"4","-","5","Y">>, <<"5","-","6","Y">>, <<"O","n","e"," ","S","i","z","e">>, <<"S">>, <<"M">>, <<"L">>, <<"X","L">>, <<"X","X","L">>>>

\* maxRows of detectHeaderRow: part_000:42
MaxHeaderRows == 8
\* rows sampled by the fallback title detection: part_000:293
TitleSampleRows == 10
\* substring(0, 320): part_000:491
SeoDescriptionLen == 320

-----------------------------------------------------------------------------
(* Helper functions: part_000:34-149 *)

IsSlugChar(c) == c \in LowerLetters \/ IsDigit(c) \/ IsSpace(c) \/ c = "-"

\* s.replace(/\s+/g, "-") followed by s.replace(/-+/g, "-"): every maximal
\* run of whitespace and dashes becomes one dash
RECURSIVE DashRuns(_)
DashRuns(s) ==
    IF s = <<>> THEN <<>>
    ELSE IF IsSpace(Head(s)) \/ Head(s) = "-"
         THEN LET rest == DashRuns(Tail(s))
              IN  IF rest # <<>> /\ Head(rest) = "-" THEN rest ELSE <<"-">> \o rest
         ELSE <<Head(s)>> \o DashRuns(Tail(s))

slugify(text) ==
    LET t1 == SelectSeq(toLowerCase(trim(text)), IsSlugChar)
        t2 == DashRuns(t1)
        a  == IF t2 # <<>> /\ Head(t2) = "-" THEN Tail(t2) ELSE t2
    IN  IF a # <<>> /\ a[Len(a)] = "-" THEN SubSeq(a, 1, Len(a) - 1) ELSE a

\* a row qualifies when some cell, trimmed and lower-cased, contains "title"
HeaderLike(row) ==
    \E j \in DOMAIN row : includes(toLowerCase(trim(row[j])), S_title)

\* detectHeaderRow scanning every row instead of the first maxRows
detectHeaderRow_NoLimit(data) ==
    LET hits == { i \in 0..(Len(data) - 1) : HeaderLike(data[i + 1]) }
    IN  IF hits = {} THEN 0
        ELSE CHOOSE i \in hits : \A k \in hits : i <= k

\* part_000:42-50
detectHeaderRow(data) ==
    LET limit == Min(MaxHeaderRows, Len(data))
        hits  == { i \in 0..(limit - 1) : HeaderLike(data[i + 1]) }
    IN  IF hits = {} THEN 0
        ELSE CHOOSE i \in hits : \A k \in hits : i <= k

IsAlnumLower(c) == c \in LowerLetters \/ IsDigit(c)
NotSpace(c) == ~IsSpace(c)

\* normalize of findColByNames: part_000:91
normalize(s) == SelectSeq(toLowerCase(s), IsAlnumLower)

\* name.toLowerCase().replace(/\s/g, "")
squeeze(s) == SelectSeq(toLowerCase(s), NotSpace)

\* colsNorm[key]: the last column that normalizes to key, NULL when none
colsNormAt(cols, key) ==
    LET idx == { i \in DOMAIN cols : normalize(cols[i]) = key }
    IN  IF idx = {} THEN NULL
        ELSE cols[CHOOSE i \in idx : \A k \in idx : k <= i]

\* first name (priority order) that some column matches exactly
RECURSIVE ExactMatch(_, _)
ExactMatch(cols, names) ==
    IF names = <<>> THEN NULL
    ELSE LET hit == colsNormAt(cols, normalize(Head(names)))
         IN  IF hit # NULL THEN hit ELSE ExactMatch(cols, Tail(names))

\* first column (original order) that contains needle
RECURSIVE FirstContaining(_, _)
FirstContaining(cols, needle) ==
    IF cols = <<>> THEN NULL
    ELSE IF includes(squeeze(Head(cols)), needle) THEN Head(cols)
    ELSE FirstContaining(Tail(cols), needle)

RECURSIVE SubstringMatch(_, _)
SubstringMatch(cols, names) ==
    IF names = <<>> THEN NULL
    ELSE LET hit == FirstContaining(cols, squeeze(Head(names)))
         IN  IF hit # NULL THEN hit ELSE SubstringMatch(cols, Tail(names))

\* findColByNames without the exact pass of lines 98-102
findColByNames_SubstringOnly(cols, names) == SubstringMatch(cols, names)

\* part_000:90-114
findColByNames(cols, names) ==
    LET exact == ExactMatch(cols, names)
    IN  IF exact # NULL THEN exact ELSE SubstringMatch(cols, names)

IsImageCol(c) ==
    LET lower == toLowerCase(c)
    IN  \/ includes(lower, <<"p","r","o","d","u","c","t"," ","i","m","a","g","e">>)
        \/ includes(lower, <<"i","m","a","g","e">>)
        \/ includes(lower, <<"i","m","a","g","e"," ","u","r","l">>)

detectImageColumns(cols) == SelectSeq(cols, IsImageCol)

\* /^\s*<candidate>\s*$/i on the trimmed header
IsSizeCandidate(c) ==
    \E k \in DOMAIN sizeCandidates :
        toLowerCase(trim(c)) = toLowerCase(sizeCandidates[k])

StripTrailingSpaces(s) == SubSeq(s, 1, Len(s) - TrailingSpaces(s))

\* /\d+\s*[-]?\s*\d*\s*[my]$/i on the trimmed header
LooksLikeAgeRange(c) ==
    LET t  == trim(c)
        n  == Len(t)
        b  == IF n = 0 THEN <<>> ELSE StripTrailingSpaces(SubSeq(t, 1, n - 1))
        b2 == IF b # <<>> /\ b[Len(b)] = "-"
              THEN StripTrailingSpaces(SubSeq(b, 1, Len(b) - 1)) ELSE b
    IN  /\ n > 0
        /\ LowerChar(t[n]) \in {"m", "y"}
        /\ b2 # <<>>
        /\ IsDigit(b2[Len(b2)])

\* the fallback loop of detectSizeColumns over the columns from position i
RECURSIVE SizeFallback(_, _, _)
SizeFallback(cols, i, sizeCols) ==
    IF i > Len(cols) THEN sizeCols
    ELSE IF ~arrayIncludes(sizeCols, cols[i]) /\ LooksLikeAgeRange(cols[i])
         THEN SizeFallback(cols, i + 1, Append(sizeCols, cols[i]))
         ELSE SizeFallback(cols, i + 1, sizeCols)

detectSizeColumns(cols) == SizeFallback(cols, 1, SelectSeq(cols, IsSizeCandidate))

-----------------------------------------------------------------------------
(* Age-bracket tags: part_000:151-233 *)

IsDashVariant(c) == c \in {"-", "endash", "emdash"}

\* lower-case, trim, collapse whitespace, unify the dashes (the en dash and
\* the em dash are the characters "endash" and "emdash"), drop the spaces
normalizeSizeForMatching(sizeStr) ==
    LET normalized == SelectSeq(trim(toLowerCase(sizeStr)), NotSpace)
    IN  [i \in DOMAIN normalized |->
            IF IsDashVariant(normalized[i]) THEN "-" ELSE normalized[i]]

BoyAgeGroups == <<
    [tag |-> <<"B","o","y"," ","0","-","3","m">>,  patterns |-> <<<<"n","b">>, <<"0","-","2","m">>, <<"2","-","4","m">>, <<"0","-","3","m">>, <<"0","-","6","m">>>>],
    [tag |-> <<"B","o","y"," ","3","-","6","m">>,  patterns |-> <<<<"2","-","4","m">>, <<"4","-","6","m">>, <<"3","-","6","m">>, <<"0","-","6","m">>>>],
    [tag |-> <<"B","o","y"," ","6","-","1","2","m">>, patterns |-> <<<<"6","-","9","m">>, <<"6","-","1","2","m">>, <<"9","-","1","2","m">>, <<"0","-","1","2","m">>>>],
    [tag |-> <<"B","o","y"," ","1","-","2","y">>,  patterns |-> <<<<"1","2","-","1","8","m">>, <<"1","5","-","1","8","m">>, <<"1","8","-","2","4","m">>, <<"1","8","m","-","3","y">>, <<"1","-","2","y">>, <<"1","-","3","y">>>>],
    [tag |-> <<"B","o","y"," ","2","-","3","y">>,  patterns |-> <<<<"1","8","m","-","3","y">>, <<"1","-","3","y">>, <<"2","-","3","y">>, <<"2","-","4","y">>, <<"2","-","2",".","5","y">>, <<"2",".","5","-","3","y">>>>],
    [tag |-> <<"B","o","y"," ","3","-","4","y">>,  patterns |-> <<<<"2","-","4","y">>, <<"3","-","4","y">>, <<"3","-","3",".","5","y">>, <<"3",".","5","-","4","y">>>>],
    [tag |-> <<"B","o","y"," ","4","-","5","y">>,  patterns |-> <<<<"3","-","4","y">>, <<"4","-","5","y">>, <<"5","-","6","y">>, <<"5","-","7","y">>, <<"4","-","4",".","5","y">>, <<"4",".","5","-","5","y">>>>],
    [tag |-> <<"B","o","y"," ","5","+"," ","y">>,  patterns |-> <<<<"5","-","6","y">>, <<"5","-","7","y">>, <<"6","-","7","y">>, <<"7","-","8","y">>, <<"5","-","5",".","5","y">>, <<"5",".","5","-","6","y">>>>] >>

GirlAgeGroups == <<
    [tag |-> <<"G","i","r","l"," ","0","-","3","m">>,  patterns |-> <<<<"n","b">>, <<"0","-","2","m">>, <<"2","-","4","m">>, <<"0","-","3","m">>, <<"0","-","6","m">>>>],
    [tag |-> <<"G","i","r","l"," ","3","-","6","m">>,  patterns |-> <<<<"2","-","4","m">>, <<"2","4","m">>, <<"4","-","6","m">>, <<"3","-","6","m">>, <<"0","-","6","m">>>>],
    [tag |-> <<"G","i","r","l"," ","6","-","1","2","m">>, patterns |-> <<<<"6","-","9","m">>, <<"6","-","1","2","m">>, <<"9","-","1","2","m">>, <<"0","-","1","2","m">>>>],
    [tag |-> <<"G","i","r","l"," ","1","-","2","y">>,  patterns |-> <<<<"1","2","-","1","8","m">>, <<"1","5","-","1","8","m">>, <<"1","8","-","2","4","m">>, <<"1","8","m","-","3","y">>, <<"1","-","2","y">>, <<"1","-","3","y">>>>],
    [tag |-> <<"G","i","r","l"," ","2","-","3","y">>,  patterns |-> <<<<"1","8","m","-","3","y">>, <<"1","-","3","y">>, <<"1","3","y">>, <<"2","-","3","y">>, <<"2","-","4","y">>, <<"2","-","2",".","5","y">>, <<"2",".","5","-","3","y">>>>],
    [tag |-> <<"G","i","r","l"," ","3","-","4","y">>,  patterns |-> <<<<"2","-","4","y">>, <<"3","-","4","y">>, <<"3","-","3",".","5","y">>, <<"3",".","5","-","4","y">>>>],
    [tag |-> <<"G","i","r","l"," ","4","-","5","y">>,  patterns |-> <<<<"3","-","4","y">>, <<"4","-","5","y">>, <<"5","-","6","y">>, <<"5","-","7","y">>>>],
    [tag |-> <<"G","i","r","l"," ","5","+"," ","y">>,  patterns |-> <<<<"5","-","6","y">>, <<"5","-","7","y">>, <<"6","-","7","y">>, <<"7","-","8","y">>>>] >>

\* pattern === variant || (pattern.length >= 3 && variant.includes(pattern))
PatternMatches(pattern, variant) ==
    pattern = variant \/ (Len(pattern) >= 3 /\ includes(variant, pattern))

\* the variants and patterns loops of one group: the group's tag is pushed
\* (once) as soon as some non-empty normalized variant matches some pattern
GroupMatches(group, normalizedVariants) ==
    \E v \in DOMAIN normalizedVariants :
        /\ normalizedVariants[v] # <<>>
        /\ \E p \in DOMAIN group.patterns :
              PatternMatches(group.patterns[p], normalizedVariants[v])

IsRealVariant(v) == v # <<>> /\ v # S_Default

RECURSIVE AgeGroupTags(_, _)
AgeGroupTags(ageGroups, normalizedVariants) ==
    IF ageGroups = <<>> THEN <<>>
    ELSE (IF GroupMatches(Head(ageGroups), normalizedVariants)
          THEN <<Head(ageGroups).tag>> ELSE <<>>)
         \o AgeGroupTags(Tail(ageGroups), normalizedVariants)

NormalizedVariants(variants) ==
    LET kept == SelectSeq(variants, IsRealVariant)
    IN  [i \in DOMAIN kept |-> normalizeSizeForMatching(kept[i])]

\* getBoyAgeGroupTags stopping at the first bracket that matches, as if a
\* variant belonged to one bracket only
getBoyAgeGroupTags_FirstBracket(variants) ==
    LET t == AgeGroupTags(BoyAgeGroups, NormalizedVariants(variants))
    IN  IF t = <<>> THEN t ELSE <<t[1]>>

\* part_000:167-199
getBoyAgeGroupTags(variants) == AgeGroupTags(BoyAgeGroups, NormalizedVariants(variants))

getGirlAgeGroupTags(variants) == AgeGroupTags(GirlAgeGroups, NormalizedVariants(variants))

-----------------------------------------------------------------------------
(* processSingleFile, the table: part_000:245-300 *)

\* `unnamed_${Math.random()}` for a blank header cell; rnd is the text of
\* the random number
Placeholder(rnd) == <<"u","n","n","a","m","e","d","_">> \o rnd

\* part_000:254
HeaderRowOf(cells, rnd) ==
    [j \in DOMAIN cells |->
        IF trim(cells[j]) # <<>> THEN trim(cells[j]) ELSE Placeholder(rnd[j])]

\* part_000:260-266: one object per data row; a later column of the same
\* name overwrites an earlier one, a missing cell reads ""
RowObject(cols, row) ==
    [c \in Range(cols) |->
        LET idx == CHOOSE i \in DOMAIN cols :
                      cols[i] = c /\ \A k \in DOMAIN cols : cols[k] = c => k <= i
        IN  IF idx <= Len(row) THEN row[idx] ELSE <<>>]

DataFrame(data, headerRowIdx, cols) ==
    [k \in 1..(Len(data) - headerRowIdx - 1) |->
        RowObject(cols, data[headerRowIdx + 1 + k])]

\* /^\d+$/
AllDigits(s) == s # <<>> /\ \A i \in DOMAIN s : IsDigit(s[i])

\* part_000:293-294: some of the first 10 records holds a non-empty,
\* not purely numeric value in column c
HasTextSample(frame, c) ==
    \E k \in 1..Min(TitleSampleRows, Len(frame)) :
        frame[k][c] # <<>> /\ ~AllDigits(frame[k][c])

\* part_000:290-300
RECURSIVE FirstTextColumn(_, _, _)
FirstTextColumn(cols, i, frame) ==
    IF i > Len(cols) THEN NULL
    ELSE IF HasTextSample(frame, cols[i]) THEN cols[i]
    ELSE FirstTextColumn(cols, i + 1, frame)

FallbackTitleCol(cols, frame) ==
    LET c == FirstTextColumn(cols, 1, frame)
    IN  IF c # NULL THEN c ELSE cols[1]

\* part_000:272-300
ColumnMapping(cols, frame) ==
    LET t == findColByNames(cols, TitleNames)
    IN  [ titleCol     |-> IF t # NULL THEN t ELSE FallbackTitleCol(cols, frame),
          brandCol     |-> findColByNames(cols, BrandNames),
          prodcatCol   |-> findColByNames(cols, ProdcatNames),
          subcatCol    |-> findColByNames(cols, SubcatNames),
          subsubCol    |-> findColByNames(cols, SubsubNames),
          seasonCol    |-> findColByNames(cols, SeasonNames),
          campaignCol  |-> findColByNames(cols, CampaignNames),
          sizesCol     |-> findColByNames(cols, SizesNames),
          costCol      |-> findColByNames(cols, CostNames),
          mrpCol       |-> findColByNames(cols, MrpNames),
          finalCol     |-> findColByNames(cols, FinalNames),
          sizeChartCol |-> findColByNames(cols, SizeChartNames),
          imageCols    |-> detectImageColumns(cols),
          sizeCols     |-> detectSizeColumns(cols) ]

-----------------------------------------------------------------------------
(* processSingleFile, one record: part_000:319-515 *)

\* String(v || "").trim() is non-empty and not "nan"
Usable(v) == trim(v) # <<>> /\ toLowerCase(trim(v)) # S_nan

\* part_000:329-331
SizeFires(val) ==
    /\ val # <<>>
    /\ trim(val) # <<>>
    /\ trim(val) # S_zero
    /\ toLowerCase(trim(val)) # S_nan

\* part_000:326-336
RECURSIVE FiredSizes(_, _)
FiredSizes(sizeCols, row) ==
    IF sizeCols = <<>> THEN <<>>
    ELSE (IF SizeFires(row[Head(sizeCols)]) THEN <<trim(Head(sizeCols))>> ELSE <<>>)
         \o FiredSizes(Tail(sizeCols), row)

VariantsOf(sizeCols, row) ==
    LET variants == FiredSizes(sizeCols, row)
    IN  IF Len(variants) = 0 THEN <<S_Default>> ELSE variants

\* part_000:340-345 (and 346-351 for the size chart column)
RECURSIVE CollectImages(_, _, _)
CollectImages(imageCols, row, images) ==
    IF imageCols = <<>> THEN images
    ELSE LET url == trim(row[Head(imageCols)])
         IN  CollectImages(Tail(imageCols), row,
                 IF Usable(url) /\ ~arrayIncludes(images, url)
                 THEN Append(images, url) ELSE images)

ImagesOf(roles, row) ==
    LET images == CollectImages(roles.imageCols, row, <<>>)
    IN  IF roles.sizeChartCol # NULL
        THEN CollectImages(<<roles.sizeChartCol>>, row, images)
        ELSE images

\* out[key] = val; a key the object does not hold yet is added
Put(out, key, val) ==
    [k \in (DOMAIN out) \cup {key} |-> IF k = key THEN val ELSE out[k]]

\* the pre-population done over the 55 standard columns only
EmptyRow_NoExtras == [c \in Range(SubSeq(TEMPLATE_COLS, 1, 55)) |-> <<>>]

\* TEMPLATE_COLS.forEach(c => out[c] = ""): part_000:365 and 508
EmptyRow == [c \in Range(TEMPLATE_COLS) |-> <<>>]

RECURSIVE Join(_, _)
Join(parts, sep) ==
    IF parts = <<>> THEN <<>>
    ELSE IF Len(parts) = 1 THEN parts[1]
    ELSE parts[1] \o sep \o Join(Tail(parts), sep)

\* part_000:370-379
RECURSIVE DescParts(_, _, _)
DescParts(names, cols, row) ==
    IF names = <<>> THEN <<>>
    ELSE LET colName == findColByNames(cols, <<Head(names)>>)
         IN  (IF colName # NULL /\ row[colName] # <<>> /\ trim(row[colName]) # <<>>
              THEN <<trim(row[colName])>> ELSE <<>>)
             \o DescParts(Tail(names), cols, row)

DescriptionOf(cols, row) ==
    Join(DescParts(SpecificationNames, cols, row), <<"\n", "\n">>)

\* part_000:381-387
RECURSIVE ApplyExtras(_, _, _, _)
ApplyExtras(out, extras, cols, row) ==
    IF extras = <<>> THEN out
    ELSE LET sourceCol == findColByNames(cols, Head(extras).names)
         IN  ApplyExtras(
                 IF sourceCol # NULL THEN Put(out, Head(extras).key, trim(row[sourceCol]))
                 ELSE out,
                 Tail(extras), cols, row)

\* part_000:395-422: the value of each resolved role column, when usable
RECURSIVE RoleTags(_, _)
RoleTags(roleCols, row) ==
    IF roleCols = <<>> THEN <<>>
    ELSE (IF Head(roleCols) # NULL /\ Usable(row[Head(roleCols)])
          THEN <<trim(row[Head(roleCols)])>> ELSE <<>>)
         \o RoleTags(Tail(roleCols), row)

\* part_000:425-430
isValueOne(val) ==
    LET valStr == trim(val)
        f      == parseFloat(valStr)
    IN  /\ valStr # <<>>
        /\ toLowerCase(valStr) # S_nan
        /\ ~f.nan /\ ~f.neg /\ f.num = f.den

PushNew(tags, t) == IF arrayIncludes(tags, t) THEN tags ELSE Append(tags, t)

IsFlagStrip(c) == ~(IsSpace(c) \/ c \in {"*", "+"})

\* part_000:433
FlagNorm(col) == toLowerCase(SelectSeq(col, IsFlagStrip))

T_Boy     == <<"B","o","y">>
T_Girl    == <<"G","i","r","l">>
T_Unisex  == <<"U","n","i","s","e","x">>
T_Newborn == <<"N","e","w","b","o","r","n">>

\* part_000:438-452
FlagTag(colNorm, tags) ==
    IF includes(colNorm, <<"g","i","r","l","s">>) /\ includes(colNorm, <<"u","n","i","s","e","x">>)
        THEN PushNew(PushNew(tags, T_Girl), T_Unisex)
    ELSE IF includes(colNorm, <<"b","o","y","s">>) /\ includes(colNorm, <<"u","n","i","s","e","x">>)
        THEN PushNew(PushNew(tags, T_Boy), T_Unisex)
    ELSE IF colNorm = <<"b","o","y">> \/ colNorm = <<"b","o","y","s">> THEN PushNew(tags, T_Boy)
    ELSE IF colNorm = <<"g","i","r","l">> \/ colNorm = <<"g","i","r","l","s">> THEN PushNew(tags, T_Girl)
    ELSE IF colNorm = <<"u","n","i","s","e","x">> THEN PushNew(tags, T_Unisex)
    ELSE IF colNorm = <<"n","b">> \/ colNorm = <<"n","e","w","b","o","r","n">> THEN PushNew(tags, T_Newborn)
    ELSE tags

\* part_000:432-453
RECURSIVE FlagTags(_, _, _)
FlagTags(cols, row, tags) ==
    IF cols = <<>> THEN tags
    ELSE FlagTags(Tail(cols), row,
             IF isValueOne(row[Head(cols)]) THEN FlagTag(FlagNorm(Head(cols)), tags)
             ELSE tags)

RECURSIVE PushAllNew(_, _)
PushAllNew(tags, more) ==
    IF more = <<>> THEN tags ELSE PushAllNew(PushNew(tags, Head(more)), Tail(more))

\* Array.from(new Set(tags))
RECURSIVE Dedupe(_)
Dedupe(tags) ==
    IF tags = <<>> THEN <<>>
    ELSE LET init == Dedupe(SubSeq(tags, 1, Len(tags) - 1))
         IN  PushNew(init, tags[Len(tags)])

\* part_000:393-466
TagsOf(cols, roles, row, variants) ==
    LET t1 == RoleTags(<<roles.brandCol, roles.prodcatCol, roles.subcatCol,
                         roles.subsubCol, roles.subsubCol, roles.seasonCol,
                         roles.campaignCol, roles.sizesCol>>, row)
        t2 == FlagTags(cols, row, t1)
        t3 == IF arrayIncludes(t2, T_Boy)
              THEN PushAllNew(t2, getBoyAgeGroupTags(variants)) ELSE t2
        t4 == IF arrayIncludes(t3, T_Girl)
              THEN PushAllNew(t3, getGirlAgeGroupTags(variants)) ELSE t3
    IN  Dedupe(t4)

\* part_000:474-480 with the priority of the two sources exchanged
PriceOf_CostFirst(finalPrice, costPrice) ==
    IF costPrice # <<>> THEN roundToNearest9(costPrice)
    ELSE IF finalPrice # <<>> THEN roundToNearest9(finalPrice)
    ELSE <<>>

\* part_000:474-480
PriceOf(finalPrice, costPrice) ==
    IF finalPrice # <<>> THEN roundToNearest9(finalPrice)
    ELSE IF costPrice # <<>> THEN roundToNearest9(costPrice)
    ELSE <<>>

\* if (cond) out[key] = val
PutIf(cond, out, key, val) == IF cond THEN Put(out, key, val) ELSE out

\* the cleaned text of a price role: part_000:356-358
CleanedCell(col, row) == IF col # NULL THEN cleanPrice(row[col]) ELSE <<>>

\* part_000:367-379
WithIdentity(out, cols, row, title) ==
    Put(Put(Put(out, "Title", title), "URL handle", slugify(title)),
        "Description", DescriptionOf(cols, row))

\* row[subcatCol] || (subsubCol ? row[subsubCol] : ""): part_000:391
TypeOf(roles, row) ==
    IF row[roles.subcatCol] # <<>> THEN row[roles.subcatCol]
    ELSE IF roles.subsubCol # NULL THEN row[roles.subsubCol]
    ELSE <<>>

\* part_000:389-391
WithRoles(out, roles, row) ==
    PutIf(roles.subcatCol # NULL,
          PutIf(roles.prodcatCol # NULL,
                PutIf(roles.brandCol # NULL, out, "Vendor", row[roles.brandCol]),
                "Product category", row[roles.prodcatCol]),
          "Type", TypeOf(roles, row))

\* part_000:466-472
WithTagsAndOption(out, tags, size) ==
    Put(Put(Put(Put(Put(out, "Tags", Join(tags, <<",", " ">>)),
                    "Published on online store", S_TRUE),
                "Status", S_Active),
            "Option1 name", IF size # S_Default THEN S_Size ELSE <<>>),
        "Option1 value", IF size # S_Default THEN size ELSE <<>>)

\* part_000:474-488
WithPrices(out, roles, row) ==
    Put(Put(Put(Put(Put(Put(Put(out,
        "Price", PriceOf(CleanedCell(roles.finalCol, row), CleanedCell(roles.costCol, row))),
        "Compare-at price", CleanedCell(roles.mrpCol, row)),
        "Cost per item", CleanedCell(roles.costCol, row)),
        "Charge tax", S_TRUE),
        "Requires shipping", S_TRUE),
        "Fulfillment service", S_manual),
        "Gift card", S_FALSE)

\* part_000:490-492
WithSeo(out, roles, row, title) ==
    PutIf(roles.prodcatCol # NULL,
          Put(Put(out, "SEO title", title),
              "SEO description",
              SubSeq(out["Description"], 1, Min(SeoDescriptionLen, Len(out["Description"])))),
          "Google Shopping / Google product category", row[roles.prodcatCol])

\* part_000:495-499
WithPrimaryImage(out, withImage, images) ==
    IF withImage
    THEN Put(Put(out, "Product image URL", images[1]), "Image position", NatStr(1))
    ELSE out

\* part_000:364-501: the row of one variant; withImage is
\* firstVariant && primaryImage
VariantRow(cols, roles, row, title, variants, images, size, withImage) ==
    WithPrimaryImage(
        WithSeo(
            WithPrices(
                WithTagsAndOption(
                    WithRoles(
                        ApplyExtras(WithIdentity(EmptyRow, cols, row, title),
                                    optionalExtraCols, cols, row),
                        roles, row),
                    TagsOf(cols, roles, row, variants), size),
                roles, row),
            roles, row, title),
        withImage, images)

\* the loop at part_000:363 with the image put on every variant row
RECURSIVE VariantRows_ImageOnAll(_, _, _, _, _, _, _, _)
VariantRows_ImageOnAll(cols, roles, row, title, variants, images, i, firstVariant) ==
    IF i > Len(variants) THEN <<>>
    ELSE <<VariantRow(cols, roles, row, title, variants, images, variants[i],
                      Len(images) > 0)>>
         \o VariantRows_ImageOnAll(cols, roles, row, title, variants, images, i + 1,
                                   firstVariant)

\* the loop at part_000:363, from variant i on
RECURSIVE VariantRows(_, _, _, _, _, _, _, _)
VariantRows(cols, roles, row, title, variants, images, i, firstVariant) ==
    IF i > Len(variants) THEN <<>>
    ELSE LET withImage == firstVariant /\ Len(images) > 0
         IN  <<VariantRow(cols, roles, row, title, variants, images, variants[i], withImage)>>
             \o VariantRows(cols, roles, row, title, variants, images, i + 1,
                            IF withImage THEN FALSE ELSE firstVariant)

\* part_000:504-514 with the loop started at the first image
ImageRows_FromFirst(title, images) ==
    [k \in 1..Len(images) |->
        Put(Put(Put(EmptyRow, "URL handle", slugify(title)),
                "Product image URL", images[k]),
            "Image position", NatStr(k + 1))]

\* part_000:504-514: one row per image after the first, positions from 2
ImageRows(title, images) ==
    [k \in 1..(Len(images) - 1) |->
        Put(Put(Put(EmptyRow, "URL handle", slugify(title)),
                "Product image URL", images[k + 1]),
            "Image position", NatStr(k + 1))]

\* part_000:321-323 and 361-514, the title, variants and images in hand
RowsOf(cols, roles, row, title, variants, images) ==
    IF title = <<>> \/ toLowerCase(title) = S_nan THEN <<>>
    ELSE VariantRows(cols, roles, row, title, variants, images, 1, TRUE)
         \o ImageRows(title, images)

\* the rows one record pushes to outRows: part_000:319-515
RecordRows(cols, roles, row) ==
    RowsOf(cols, roles, row, trim(row[roles.titleCol]),
           VariantsOf(roles.sizeCols, row), ImagesOf(roles, row))

RECURSIVE AllRows(_, _, _)
AllRows(cols, roles, frame) ==
    IF frame = <<>> THEN <<>>
    ELSE RecordRows(cols, roles, Head(frame)) \o AllRows(cols, roles, Tail(frame))

\* the resolved text "" of an empty table: part_000:248-251
EmptyText == [fields |-> <<>>, data |-> <<>>]

\* Papa.unparse({fields, data}): the header line is fields, and each row is
\* read field by field, a key the row does not hold giving ""
unparse(fields, data) ==
    [fields |-> fields,
     data   |-> [i \in DOMAIN data |->
                    [j \in DOMAIN fields |->
                        IF fields[j] \in DOMAIN data[i] THEN data[i][fields[j]]
                        ELSE <<>>]]]

\* processSingleFile on parsed data, rnd the random texts of line 254
processSingleFile(data, rnd) ==
    IF Len(data) = 0 THEN EmptyText
    ELSE LET headerRowIdx == detectHeaderRow(data)
             cols  == HeaderRowOf(data[headerRowIdx + 1], rnd)
             frame == DataFrame(data, headerRowIdx, cols)
             roles == ColumnMapping(cols, frame)
         IN  unparse(TEMPLATE_COLS, AllRows(cols, roles, frame))

-----------------------------------------------------------------------------
(* The variables a specification does not use keep these values *)

UiIdle ==
    /\ files = <<>> /\ category = NULL /\ status = "idle" /\ error = "null"
    /\ result = <<>> /\ zip = <<>> /\ tasks = <<>> /\ pfpc = "idle" /\ batch = <<>>

FileIdle ==
    /\ fpc = "idle" /\ rawData = <<>> /\ headerRow = <<>> /\ roleMap = <<>>
    /\ df = <<>> /\ recIdx = 0 /\ lastRows = <<>> /\ outRows = <<>> /\ csv = EmptyText

PriceIdle ==
    /\ ppc = "idle" /\ rawPrice = <<>> /\ cleaned = <<>> /\ rounded = <<>>

HelperIdle ==
    /\ hpc = "idle" /\ hargs = <<>> /\ hret = <<>>

-----------------------------------------------------------------------------
(* SpecPrice: a price cell goes through cleanPrice (part_000:356-358) and   *)
(* the cleaned text through roundToNearest9 (part_000:476-480)             *)

\* price texts that are not plain integers
OddPriceTexts == { <<>>, <<" "," ">>, <<"$","1",",","2","9","9",".","0","0">>, <<"1","9",".","9","5">>, <<"R","s",".","1",",","2","9","9",".","0","0">>, <<"1","2",".","5","0">>,
                   <<"4",".","9","9">>, <<"-","5">>, <<"-","0">>, <<"-">>, <<"a","b","c">>, <<" ","0","0","7"," ">>, <<"1","-","2">>,
                   <<"1","0","4",".","0">>, <<"n","a","n">> }

PriceTexts == { NatStr(n) : n \in 0..MaxPrice } \cup OddPriceTexts

PriceInit ==
    /\ ppc = "start" /\ rawPrice \in PriceTexts /\ cleaned = <<>> /\ rounded = <<>>
    /\ UiIdle /\ FileIdle /\ HelperIdle

Clean ==
    /\ ppc = "start"
    /\ cleaned' = cleanPrice(rawPrice)
    /\ ppc' = "cleaned"
    /\ UNCHANGED <<rawPrice, rounded, uiVars, fileVars, helperVars>>

Round ==
    /\ ppc = "cleaned"
    /\ rounded' = roundToNearest9(cleaned)
    /\ ppc' = "rounded"
    /\ UNCHANGED <<rawPrice, cleaned, uiVars, fileVars, helperVars>>

PriceNext == Clean \/ Round

SpecPrice == PriceInit /\ [][PriceNext]_vars

-----------------------------------------------------------------------------
(* SpecFile: processSingleFile on the data Papa.parse hands to `complete`  *)

RECURSIVE Product(_)
\* every row that takes its j-th cell from the j-th pool
Product(pools) ==
    IF pools = <<>> THEN {<<>>}
    ELSE { <<h>> \o t : h \in Head(pools), t \in Product(Tail(pools)) }

RECURSIVE RowSeqs(_, _)
\* the sequences of at most n rows
RowSeqs(rows, n) ==
    IF n = 0 THEN {<<>>}
    ELSE {<<>>} \cup { <<r>> \o s : r \in rows, s \in RowSeqs(rows, n - 1) }

\* a family of input tables: rows above the header, the header cells, and
\* per column the cell texts a record may hold
TablesOf(above, header, pools) ==
    { above \o <<header>> \o recs : recs \in RowSeqs(Product(pools), MaxRecords) }

\* size columns and one image column
VariantTables ==
    TablesOf(<<>>, <<<<"T","i","t","l","e">>, <<"S">>, <<" ","M"," ">>, <<"I","m","a","g","e">>>>,
             << { <<"T","e","e">>, <<>>, <<" ","N","a","N"," ">> },
                { <<>>, <<"1">>, <<"0">> },
                { <<"2">>, <<"n","a","n">> },
                { <<>>, <<"u","1">> } >>)

\* several image columns, a size chart column and one size column
ImageTables ==
    TablesOf(<<>>, <<<<"N","a","m","e">>, <<"I","m","a","g","e"," ","1">>, <<"i","m","a","g","e"," ","u","r","l"," ","2">>, <<"S","i","z","e"," ","C","h","a","r","t">>, <<"X","L">>>>,
             << { <<"K","i","d","s","'"," ","C","a","p">> },
                { <<>>, <<"u","1">>, <<"N","A","N">> },
                { <<>>, <<"u","1">>, <<" ","u","2">> },
                { <<>>, <<"u","3">>, <<"u","1">> },
                { <<>>, <<"4">> } >>)

\* the three price columns
PriceTables ==
    TablesOf(<<>>, <<<<"T","i","t","l","e">>, <<"S","e","l","l","i","n","g"," ","P","r","i","c","e">>, <<"M","R","P">>, <<"C","o","s","t"," ","t","o"," ","K","i","d","d","o">>>>,
             << { <<"C","a","p">> },
                { <<>>, <<"$","1",",","2","9","9",".","0","0">>, <<"1","9",".","9","5">>, <<"3">>, <<"a","b","c">> },
                { <<>>, <<"1","5","0","0",".","5","0">> },
                { <<>>, <<"2","4","9">>, <<"-">> } >>)

\* a decoy row above the header, a blank header cell, no selling price
\* column, an age-range size column
DecoyTables ==
    TablesOf(<< <<<<"P","r","i","c","e"," ","l","i","s","t">>, <<>>>> >>, <<<<"P","r","o","d","u","c","t"," ","T","i","t","l","e">>, <<>>, <<"C","o","s","t">>, <<"1","2","-","1","8"," ","m">>>>,
             << { <<"H","a","t">>, <<"n","a","n">> },
                { <<"x">> },
                { <<>>, <<"1","0","4">> },
                { <<"1">>, <<"0">> } >>)

\* an age-range size column standing before a size column of the curated
\* vocabulary
OrderTables ==
    TablesOf(<<>>, <<<<"T","i","t","l","e">>, <<"7","-","8","Y">>, <<"S">>>>,
             << { <<"T","e","e">> },
                { <<>>, <<"1">> },
                { <<>>, <<"2">>, <<" ">> } >>)

\* no title-like header and a blank header cell
BlankHeaderTables ==
    TablesOf(<<>>, <<<<"P","r","o","d","u","c","t">>, <<>>, <<"M","R","P">>>>,
             << { <<"H","a","t">>, <<"1","2">> },
                { <<>>, <<"x">> },
                { <<"5">> } >>)

\* one specification column
SpecificationTables ==
    TablesOf(<<>>, <<<<"T","i","t","l","e">>, <<"P","r","o","d","u","c","t"," ","S","p","e","c","i","f","i","c","a","t","i","o","n">>>>,
             << { <<"C","a","p">> },
                { <<>>, <<" ","S","o","f","t"," ">> } >>)
    \cup
    TablesOf(<<>>, <<<<"T","i","t","l","e">>, <<"P","r","o","d","u","c","t"," ","S","p","e","c","i","f","c","a","t","i","o","n">>>>,
             << { <<"C","a","p">> },
                { <<"W","a","r","m">> } >>)

\* the flag column Boy and two size columns, one of them an age range that
\* contains a pattern ("0-12m") without being equal to it
BoyTables ==
    TablesOf(<<>>, <<<<"T","i","t","l","e">>, <<"B","o","y">>, <<"2","-","4","M">>, <<"1","0","-","1","2"," ","M">>>>,
             << { <<"T","e","e">> },
                { <<"1">>, <<"0">> },
                { <<>>, <<"1">> },
                { <<>>, <<"3">> } >>)

\* the empty table (an empty file)
EmptyTables == { <<>> }

RawTables == VariantTables \cup ImageTables \cup PriceTables \cup DecoyTables
             \cup OrderTables \cup BlankHeaderTables \cup SpecificationTables
             \cup BoyTables \cup EmptyTables

\* String(Math.random()) of part_000:254
RandomTexts == { <<"0",".","1">>, <<"0",".","7","3">> }

\* the random texts of the blank header cells: distinct cells draw
\* distinct numbers
RandomChoices(cells) ==
    LET blank == { j \in DOMAIN cells : trim(cells[j]) = <<>> }
    IN  { r \in [DOMAIN cells -> RandomTexts] :
            /\ \A j \in DOMAIN cells : j \notin blank => r[j] = <<"0",".","1">>
            /\ \A j, k \in blank : j # k => r[j] # r[k] }

FileInit == fpc = "start" /\ rawData = <<>> /\ headerRow = <<>> /\ roleMap = <<>>
            /\ df = <<>> /\ recIdx = 0 /\ lastRows = <<>> /\ outRows = <<>>
            /\ csv = EmptyText /\ UiIdle /\ PriceIdle /\ HelperIdle

\* complete() with no row at all: part_000:247-251
ParseCompleteEmpty ==
    /\ fpc = "start"
    /\ \E data \in RawTables :
          /\ Len(data) = 0
          /\ rawData' = data
    /\ csv' = EmptyText
    /\ fpc' = "resolved"
    /\ UNCHANGED <<headerRow, roleMap, df, recIdx, lastRows, outRows, uiVars, priceVars, helperVars>>

\* complete() up to the forEach over the records: part_000:247-317
ParseComplete ==
    /\ fpc = "start"
    /\ \E data \in RawTables :
          /\ Len(data) > 0
          /\ \E rnd \in RandomChoices(data[detectHeaderRow(data) + 1]) :
                LET headerRowIdx == detectHeaderRow(data)
                    cols  == HeaderRowOf(data[headerRowIdx + 1], rnd)
                    frame == DataFrame(data, headerRowIdx, cols)
                IN  /\ rawData' = data
                    /\ headerRow' = cols
                    /\ df' = frame
                    /\ roleMap' = ColumnMapping(cols, frame)
    /\ recIdx' = 1
    /\ outRows' = <<>>
    /\ lastRows' = <<>>
    /\ fpc' = "rows"
    /\ UNCHANGED <<csv, uiVars, priceVars, helperVars>>

\* one turn of df.forEach: part_000:319-515
ProcessRow ==
    /\ fpc = "rows"
    /\ recIdx <= Len(df)
    /\ lastRows' = RecordRows(headerRow, roleMap, df[recIdx])
    /\ outRows' = outRows \o lastRows'
    /\ recIdx' = recIdx + 1
    /\ UNCHANGED <<fpc, rawData, headerRow, roleMap, df, csv, uiVars, priceVars, helperVars>>

\* Papa.unparse and resolve: part_000:517-522
Resolve ==
    /\ fpc = "rows"
    /\ recIdx > Len(df)
    /\ csv' = unparse(TEMPLATE_COLS, outRows)
    /\ fpc' = "resolved"
    /\ UNCHANGED <<rawData, headerRow, roleMap, df, recIdx, lastRows, outRows,
                   uiVars, priceVars, helperVars>>

\* the error callback of Papa.parse: part_000:528
ParseError ==
    /\ fpc = "start"
    /\ fpc' = "rejected"
    /\ UNCHANGED <<rawData, headerRow, roleMap, df, recIdx, lastRows, outRows, csv,
                   uiVars, priceVars, helperVars>>

FileNext == ParseCompleteEmpty \/ ParseComplete \/ ProcessRow \/ Resolve \/ ParseError

SpecFile == FileInit /\ [][FileNext]_vars

-----------------------------------------------------------------------------
(* Properties of SpecPrice *)

\* the text parses to a positive integer
ParsesToPositiveInt(s) ==
    ~parseFloat(s).nan /\ ~parseFloat(s).neg /\ parseFloat(s).num > 0
    /\ parseFloat(s).num % parseFloat(s).den = 0

\* the number a text parses to, for texts that parse to a non-negative integer
IntOf(s) == parseFloat(s).num \div parseFloat(s).den

\* C9 as claimed: for every price text whose parsed value is a positive
\* integer p, roundToNearest9 returns the text of r = floor((p + 5) / 10) * 10 - 1,
\* and (r + 1) mod 10 = 0.
C9_Original ==
    (ppc = "rounded" /\ ParsesToPositiveInt(cleaned)) =>
        /\ rounded = IntStr(((IntOf(cleaned) + 5) \div 10) * 10 - 1)
        /\ ~parseFloat(rounded).nan
        /\ (IntOf(rounded) + 1) % 10 = 0

\* C9 amended: for every price text whose parsed value is a positive integer
\* p, roundToNearest9 returns the text of r = max(0, floor((p + 5) / 10) * 10 - 1);
\* for p >= 5 this r is one less than the multiple of ten nearest to p (halves
\* up), so (r + 1) mod 10 = 0, and for p <= 4 it is 0.
C9_RoundToNearest9 ==
    (ppc = "rounded" /\ ParsesToPositiveInt(cleaned)) =>
        /\ rounded = IntStr(Max(0, ((IntOf(cleaned) + 5) \div 10) * 10 - 1))
        /\ ParsesToPositiveInt(rounded) \/ rounded = S_zero
        /\ IntOf(cleaned) >= 5 =>
              /\ (IntOf(rounded) + 1) % 10 = 0
              /\ IntOf(rounded) + 1 - 5 <= IntOf(cleaned)
              /\ IntOf(cleaned) < IntOf(rounded) + 1 + 5
        /\ IntOf(cleaned) <= 4 => rounded = S_zero

\* a price of 101 has been rounded to 99
C9_Witness ==
    ppc = "rounded" /\ cleaned = <<"1","0","1">> /\ rounded = <<"9","9">>

-----------------------------------------------------------------------------
(* Properties of SpecFile *)

\* some record has been processed; the last one is df[recIdx - 1]
Processed == fpc \in {"rows", "resolved"} /\ recIdx > 1

LastRecord == df[recIdx - 1]

TitleOfRecord(rec) == trim(rec[roleMap.titleCol])

\* the record is skipped: its title is empty or "nan"
Skipped(rec) == TitleOfRecord(rec) = <<>> \/ toLowerCase(TitleOfRecord(rec)) = S_nan

\* number of size columns that fire for the record
VariantCount(rec) ==
    Cardinality({ i \in DOMAIN roleMap.sizeCols : SizeFires(rec[roleMap.sizeCols[i]]) })

\* the columns images are collected from
ImageSources ==
    Range(roleMap.imageCols)
    \cup (IF roleMap.sizeChartCol # NULL THEN {roleMap.sizeChartCol} ELSE {})

\* number of images collected for the record: the distinct usable URLs
ImageCount(rec) ==
    Cardinality({ trim(rec[c]) : c \in { x \in ImageSources : Usable(rec[x]) } })

\* number of variant rows of a record that is not skipped
VariantRowCount(rec) == Max(1, VariantCount(rec))

ExpectedRows(rec) ==
    IF Skipped(rec) THEN 0
    ELSE VariantRowCount(rec) + Max(0, ImageCount(rec) - 1)

RECURSIVE ExpectedTotal(_)
ExpectedTotal(k) == IF k = 0 THEN 0 ELSE ExpectedTotal(k - 1) + ExpectedRows(df[k])

\* C1: a record contributes 0 rows when its title is empty or "nan", and
\* otherwise max(1, variantCount) + max(0, imageCount - 1) rows; outRows holds
\* the rows of all records processed so far.
C1_RowsPerRecord ==
    Processed =>
        /\ Len(lastRows) = ExpectedRows(LastRecord)
        /\ Len(outRows) = ExpectedTotal(recIdx - 1)

\* a record with one variant and three images has given three rows
C1_Witness ==
    /\ Processed
    /\ ~Skipped(LastRecord)
    /\ VariantCount(LastRecord) = 1
    /\ ImageCount(LastRecord) = 3
    /\ Len(lastRows) = 3

\* C2 as claimed: every variant row after the first has empty Product image
\* URL, Image position, Option1 name and Option1 value.
C2_Original ==
    (Processed /\ ~Skipped(LastRecord)) =>
        \A i \in 2..VariantRowCount(LastRecord) :
            /\ lastRows[i]["Product image URL"] = <<>>
            /\ lastRows[i]["Image position"] = <<>>
            /\ lastRows[i]["Option1 name"] = <<>>
            /\ lastRows[i]["Option1 value"] = <<>>

\* C2 amended: only the first assembled row of a record carries the primary
\* image (with Image position 1), and every later variant row has empty
\* Product image URL and Image position; but every variant row, the first and
\* the later ones alike, carries Option1 name "Size" and its own variant as
\* Option1 value (both empty for the variant "Default").
C2_PrimaryImageFirstRowOnly ==
    (Processed /\ ~Skipped(LastRecord)) =>
        /\ \A i \in 2..VariantRowCount(LastRecord) :
              /\ lastRows[i]["Product image URL"] = <<>>
              /\ lastRows[i]["Image position"] = <<>>
        /\ \A i \in 2..Len(lastRows) :
              /\ lastRows[i]["Image position"] # NatStr(1)
              /\ ImageCount(LastRecord) > 0 =>
                    lastRows[i]["Product image URL"] # lastRows[1]["Product image URL"]
        /\ IF ImageCount(LastRecord) > 0
           THEN /\ lastRows[1]["Product image URL"] = ImagesOf(roleMap, LastRecord)[1]
                /\ lastRows[1]["Image position"] = NatStr(1)
           ELSE /\ lastRows[1]["Product image URL"] = <<>>
                /\ lastRows[1]["Image position"] = <<>>
        /\ \A i \in 1..VariantRowCount(LastRecord) :
              LET size == VariantsOf(roleMap.sizeCols, LastRecord)[i]
              IN  IF size = S_Default
                  THEN /\ lastRows[i]["Option1 name"] = <<>>
                       /\ lastRows[i]["Option1 value"] = <<>>
                  ELSE /\ lastRows[i]["Option1 name"] = S_Size
                       /\ lastRows[i]["Option1 value"] = size

\* a record with two variants and an image: the second row has its own
\* Option1 value and no image
C2_Witness ==
    /\ Processed
    /\ ~Skipped(LastRecord)
    /\ VariantCount(LastRecord) = 2
    /\ ImageCount(LastRecord) = 1
    /\ lastRows[1]["Image position"] = NatStr(1)
    /\ lastRows[2]["Option1 value"] = <<"M">>
    /\ lastRows[2]["Product image URL"] = <<>>

\* the cleaned texts of the three price roles of a record
SellingOf(rec) == IF roleMap.finalCol # NULL THEN cleanPrice(rec[roleMap.finalCol]) ELSE <<>>
CostOf(rec)    == IF roleMap.costCol # NULL THEN cleanPrice(rec[roleMap.costCol]) ELSE <<>>
MrpOf(rec)     == IF roleMap.mrpCol # NULL THEN cleanPrice(rec[roleMap.mrpCol]) ELSE <<>>

\* C8: on every variant row, Price is the rounded cleaned selling price when
\* that is non-empty, otherwise the rounded cleaned cost when that is
\* non-empty, otherwise blank; Compare-at price is the cleaned MRP and Cost per
\* item the cleaned cost, neither rounded.
C8_Prices ==
    (Processed /\ ~Skipped(LastRecord)) =>
        \A i \in 1..VariantRowCount(LastRecord) :
            /\ lastRows[i]["Price"] =
                  IF SellingOf(LastRecord) # <<>> THEN roundToNearest9(SellingOf(LastRecord))
                  ELSE IF CostOf(LastRecord) # <<>> THEN roundToNearest9(CostOf(LastRecord))
                  ELSE <<>>
            /\ lastRows[i]["Compare-at price"] = MrpOf(LastRecord)
            /\ lastRows[i]["Cost per item"] = CostOf(LastRecord)

\* selling price 19.95 and cost 249: Price is 19, Compare-at price keeps its
\* decimals, Cost per item is 249
C8_Witness ==
    /\ Processed
    /\ ~Skipped(LastRecord)
    /\ SellingOf(LastRecord) = <<"1","9",".","9","5">>
    /\ CostOf(LastRecord) = <<"2","4","9">>
    /\ lastRows[1]["Price"] = <<"1","9">>
    /\ lastRows[1]["Compare-at price"] = <<"1","5","0","0",".","5","0">>
    /\ lastRows[1]["Cost per item"] = <<"2","4","9">>

\* the keys a variant row may be given a value for: part_000:367-497
VariantRowKeys ==
    { "Title", "URL handle", "Description", "Vendor", "Product category", "Type", "Tags",
      "Published on online store", "Status", "Option1 name", "Option1 value",
      "Price", "Compare-at price", "Cost per item", "Charge tax", "Requires shipping",
      "Fulfillment service", "Gift card", "SEO title", "SEO description",
      "Google Shopping / Google product category", "Product image URL", "Image position" }
    \cup { optionalExtraCols[k].key : k \in DOMAIN optionalExtraCols }

\* the keys a trailing image row is given a value for: part_000:509-511
ImageRowKeys == { "URL handle", "Product image URL", "Image position" }

\* a trailing image row has no title, a variant row has one
IsImageRow(r) == r["Title"] = <<>>

-----------------------------------------------------------------------------
(* Spec: App.tsx, FileUploader.tsx and processFiles (part_000:533-557)     *)

\* enum Category: types.ts:1-6
Categories == { <<"B","o","o","k","s">>, <<"T","o","y","s">>, <<"F","a","s","h","i","o","n">>, <<"E","s","s","e","n","t","i","a","l","s">> }

\* setError(...) of App.tsx:42
ProcessingErrorText == "An error occurred while processing the files. Please check the CSV format."

\* two small tables
TeeTable == << <<<<"T","i","t","l","e">>, <<"S">>>>, <<<<"T","e","e">>, <<"1">>>> >>
CapTable == << <<<<"T","i","t","l","e">>, <<"S">>>>, <<<<"C","a","p">>, <<>>>> >>

\* the files the user can pick: a.csv of one folder, a.csv of another folder
\* with other content, and b.csv, which cannot be read (Papa.parse calls
\* `error`, part_000:528)
PoolFiles ==
    { [name |-> <<"a",".","c","s","v">>, data |-> TeeTable, readable |-> TRUE],
      [name |-> <<"a",".","c","s","v">>, data |-> CapTable, readable |-> TRUE],
      [name |-> <<"b",".","c","s","v">>, data |-> TeeTable, readable |-> FALSE] }

\* what processSingleFile resolves with, per readable file of the pool
Converted ==
    { [file |-> f, csv |-> processSingleFile(f.data, <<>>)] :
        f \in { x \in PoolFiles : x.readable } }

csvContentOf(file) == (CHOOSE c \in Converted : c.file = file).csv

\* new Date().toISOString().slice(0, 10): App.tsx:32
Dates == { <<"2","0","2","6","-","1","1","-","0","3">> }

\* the position of the "." that /\.[^/.]+$/ matches at, 0 when it does not
\* match: the last dot, when at least one character follows it and no "/"
\* follows it
ExtensionDot(name) ==
    LET dots == { i \in DOMAIN name : name[i] = "." }
    IN  IF dots = {} THEN 0
        ELSE IF \E i \in dots : i < Len(name)
                                /\ \A k \in (i + 1)..Len(name) : name[k] \notin {".", "/"}
             THEN CHOOSE i \in dots : \A k \in dots : k <= i
             ELSE 0

\* file.name.replace(/\.[^/.]+$/, ""): part_000:544
nameWithoutExt(name) ==
    IF ExtensionDot(name) = 0 THEN name ELSE SubSeq(name, 1, ExtensionDot(name) - 1)

\* part_000:545
newName(file) == nameWithoutExt(file.name) \o <<" ","-"," ","C","o","n","v","e","r","t","e","d"," ","-"," ","S","h","o","p","i","f","y",".","c","s","v">>

\* part_000:551
errorName(file) == <<"E","R","R","O","R","_">> \o file.name \o <<".","t","x","t">>

\* `Failed to process: ${error}` for the read error of the file
errorBody(file) == <<"F","a","i","l","e","d"," ","t","o"," ","p","r","o","c","e","s","s",":"," ","N","o","t","R","e","a","d","a","b","l","e","E","r","r","o","r">>

\* zip.file(name, data): the entry of that name is added or replaced
zipFile(z, name, data) ==
    [n \in (DOMAIN z) \cup {name} |-> IF n = name THEN data ELSE z[n]]

\* `${category.toLowerCase()}_processed_${timestamp}.zip`: App.tsx:36
archiveName(cat, timestamp) ==
    toLowerCase(cat) \o <<"_","p","r","o","c","e","s","s","e","d","_">> \o timestamp \o <<".","z","i","p">>

\* the selections one file dialog can return: files of one folder, so no
\* two of the same name
RECURSIVE FileSeqs(_)
FileSeqs(n) ==
    IF n = 0 THEN {<<>>}
    ELSE {<<>>} \cup { <<f>> \o s : f \in PoolFiles, s \in FileSeqs(n - 1) }

Selections(n) ==
    { s \in FileSeqs(n) :
        /\ s # <<>>
        /\ \A i, j \in DOMAIN s : i # j => s[i].name # s[j].name }

Init ==
    /\ files = <<>> /\ category = NULL /\ status = "idle" /\ error = "null"
    /\ result = <<>> /\ zip = <<>> /\ tasks = <<>> /\ pfpc = "idle" /\ batch = <<>>
    /\ FileIdle /\ PriceIdle /\ HelperIdle

isProcessing == status = "processing"

\* handleFilesSelected that forgets setResult(null)
handleFilesSelected_KeepResult(selectedFiles) ==
    /\ files' = selectedFiles
    /\ IF status = "success" \/ status = "error"
       THEN status' = "idle" /\ error' = "null" /\ UNCHANGED result
       ELSE UNCHANGED <<status, result, error>>
    /\ UNCHANGED <<category, zip, tasks, pfpc, batch, fileVars, priceVars, helperVars>>

\* App.tsx:15-22
handleFilesSelected(selectedFiles) ==
    /\ files' = selectedFiles
    /\ IF status = "success" \/ status = "error"
       THEN status' = "idle" /\ result' = <<>> /\ error' = "null"
       ELSE UNCHANGED <<status, result, error>>
    /\ UNCHANGED <<category, zip, tasks, pfpc, batch, fileVars, priceVars, helperVars>>

\* FileUploader.tsx:17-25; the input is disabled while processing
HandleInputChange ==
    /\ ~isProcessing
    /\ \E newFiles \in Selections(MaxFiles - Len(files)) :
          handleFilesSelected(files \o newFiles)

\* FileUploader.tsx:27-31
RemoveFile ==
    /\ ~isProcessing
    /\ \E index \in DOMAIN files :
          handleFilesSelected(SubSeq(files, 1, index - 1)
                              \o SubSeq(files, index + 1, Len(files)))

\* CategorySelector: onSelectCategory = setCategory, disabled while processing
SelectCategory ==
    /\ ~isProcessing
    /\ \E cat \in Categories : category' = cat
    /\ UNCHANGED <<files, status, error, result, zip, tasks, pfpc, batch,
                   fileVars, priceVars, helperVars>>

\* App.tsx:24-31 and part_000:537-553: the Process button (rendered when
\* idle) starts one task per file
HandleProcess ==
    /\ status = "idle"
    /\ category # NULL /\ Len(files) > 0
    /\ status' = "processing"
    /\ error' = "null"
    /\ batch' = files
    /\ zip' = <<>>
    /\ tasks' = [i \in DOMAIN files |-> "pending"]
    /\ pfpc' = "tasks"
    /\ UNCHANGED <<files, category, result, fileVars, priceVars, helperVars>>

\* the continuation of one task after its await: part_000:541-551
TaskSettle ==
    /\ pfpc = "tasks"
    /\ \E i \in DOMAIN tasks :
          /\ tasks[i] = "pending"
          /\ zip' = IF batch[i].readable
                    THEN zipFile(zip, newName(batch[i]), csvContentOf(batch[i]))
                    ELSE zipFile(zip, errorName(batch[i]), errorBody(batch[i]))
          /\ tasks' = [tasks EXCEPT ![i] = "settled"]
    /\ UNCHANGED <<files, category, status, error, result, pfpc, batch,
                   fileVars, priceVars, helperVars>>

\* Promise.all resolves and zip.generateAsync is called: part_000:555-556
AllSettled ==
    /\ pfpc = "tasks"
    /\ \A i \in DOMAIN tasks : tasks[i] = "settled"
    /\ pfpc' = "generating"
    /\ UNCHANGED <<files, category, status, error, result, zip, tasks, batch,
                   fileVars, priceVars, helperVars>>

\* generateAsync resolves: App.tsx:31-39
GenerateResolve ==
    /\ pfpc = "generating"
    /\ \E timestamp \in Dates :
          result' = << [zipBlob  |-> zip,
                        fileName |-> archiveName(category, timestamp),
                        count    |-> Len(files)] >>
    /\ status' = "success"
    /\ pfpc' = "idle" /\ zip' = <<>> /\ tasks' = <<>> /\ batch' = <<>>
    /\ UNCHANGED <<files, category, error, fileVars, priceVars, helperVars>>

\* generateAsync rejects: App.tsx:40-44
GenerateReject ==
    /\ pfpc = "generating"
    /\ error' = ProcessingErrorText
    /\ status' = "error"
    /\ pfpc' = "idle" /\ zip' = <<>> /\ tasks' = <<>> /\ batch' = <<>>
    /\ UNCHANGED <<files, category, result, fileVars, priceVars, helperVars>>

\* "Try Again": App.tsx:158-163
TryAgain ==
    /\ status = "error"
    /\ status' = "idle"
    /\ UNCHANGED <<files, category, error, result, zip, tasks, pfpc, batch,
                   fileVars, priceVars, helperVars>>

\* "Start Over" (rendered on success): App.tsx:59-65
HandleReset ==
    /\ status = "success" /\ result # <<>>
    /\ files' = <<>> /\ category' = NULL /\ status' = "idle"
    /\ result' = <<>> /\ error' = "null"
    /\ UNCHANGED <<zip, tasks, pfpc, batch, fileVars, priceVars, helperVars>>

Next ==
    \/ HandleInputChange \/ RemoveFile \/ SelectCategory \/ HandleProcess
    \/ TaskSettle \/ AllSettled \/ GenerateResolve \/ GenerateReject
    \/ TryAgain \/ HandleReset

Spec == Init /\ [][Next]_vars

-----------------------------------------------------------------------------
(* Properties of Spec *)

\* every task of the batch has settled
Settled == pfpc = "generating"

Failing(i) == ~batch[i].readable

\* C3: a file whose processing raises produces the entry ERROR_<name>.txt,
\* and every other file, whose processing succeeds, still has its own
\* "<stem> - Converted - Shopify.csv" entry holding its own converted content.
C3_FailureIsolated ==
    Settled =>
        \A i \in DOMAIN batch :
            Failing(i) =>
                /\ errorName(batch[i]) \in DOMAIN zip
                /\ \A j \in DOMAIN batch :
                      ~Failing(j) =>
                          /\ newName(batch[j]) \in DOMAIN zip
                          /\ zip[newName(batch[j])] = csvContentOf(batch[j])

\* C4: after all tasks have settled the archive holds one entry per input
\* file.
C4_OneEntryPerFile ==
    Settled => Cardinality(DOMAIN zip) = Len(batch)

\* C5: finalization starts only after every task has settled, no entry is
\* added once it has started, and an entry a task has added is neither lost
\* nor altered when another task settles.
C5_ArchiveIntegrity ==
    [][ /\ pfpc' = "generating" => \A i \in DOMAIN tasks' : tasks'[i] = "settled"
        /\ pfpc = "generating" => (zip' = zip \/ pfpc' = "idle")
        /\ (pfpc = "tasks" /\ pfpc' = "tasks") =>
              \A n \in DOMAIN zip : n \in DOMAIN zip' /\ zip'[n] = zip[n] ]_vars

\* C6: an archive is available for download exactly when status is
\* 'success'.
C6_ResultIffSuccess ==
    /\ (result # <<>>) <=> (status = "success")
    /\ status = "error" => result = <<>>

\* archive assembly has failed and Try Again was pressed: no archive
C6_Witness ==
    status = "idle" /\ error = ProcessingErrorText /\ result = <<>> /\ Len(files) > 0

\* C7: on success the count shown equals the number of input files that
\* were converted, which is the number of converted-CSV entries of the
\* archive.
C7_CountIsConverted ==
    status = "success" =>
        /\ result[1].count = Cardinality({ i \in DOMAIN files : files[i].readable })
        /\ result[1].count =
              Cardinality({ n \in DOMAIN result[1].zipBlob :
                              \E i \in DOMAIN files : files[i].readable /\ n = newName(files[i]) })

-----------------------------------------------------------------------------
(* Properties of SpecFile: the text a file resolves with *)

\* C11: the text every successfully processed file resolves with, the file
\* with an empty input table and the file with no usable record included,
\* is the template header line followed by zero or more data rows, one per
\* output row.
C11_HeaderThenRows ==
    fpc = "resolved" =>
        /\ csv.fields = TEMPLATE_COLS
        /\ Len(csv.data) = Len(outRows)

-----------------------------------------------------------------------------
(* SpecHelper: one call of a helper function on arguments drawn from       *)
(* bounded sets                                                            *)

\* a row of unrelated text and a row with a title-like cell
DecoyRow == <<<<"P","r","i","c","e"," ","l","i","s","t">>, <<>>>>
TitleRow == <<<<"S","K","U">>, <<" ","P","r","o","d","u","c","t"," ","T","I","T","L","E"," ">>>>

RECURSIVE TablesUpTo(_)
\* the tables of at most n rows, each row a decoy row or a title row
TablesUpTo(n) ==
    IF n = 0 THEN {<<>>}
    ELSE {<<>>} \cup { <<r>> \o t : r \in {DecoyRow, TitleRow}, t \in TablesUpTo(n - 1) }

HeaderCalls == { [fn |-> "detectHeaderRow", data |-> t] : t \in TablesUpTo(MaxTableRows) }

\* header names findColByNames is tried on
HeaderPool == { <<"B","r","a","n","d"," ","N","a","m","e">>, <<"b","r","a","n","d","_","n","a","m","e">>, <<"B","r","a","n","d"," ","N","a","m","e"," ","(","o","l","d",")">>, <<"V","e","n","d","o","r">>,
                <<"M","y"," ","B","r","a","n","d">>, <<"S","K","U">> }

RECURSIVE HeaderRows(_)
\* the header rows of at most n names
HeaderRows(n) ==
    IF n = 0 THEN {<<>>}
    ELSE {<<>>} \cup { <<h>> \o t : h \in HeaderPool, t \in HeaderRows(n - 1) }

ColCalls ==
    { [fn |-> "findColByNames", cols |-> c, names |-> n] :
        c \in HeaderRows(MaxCols), n \in {BrandNames, TitleNames, SizeChartNames} }

RECURSIVE VariantLists(_)
\* the variant lists of at most n labels of the curated size vocabulary
VariantLists(n) ==
    IF n = 0 THEN {<<>>}
    ELSE {<<>>} \cup { <<l>> \o t : l \in Range(sizeCandidates), t \in VariantLists(n - 1) }

AgeCalls == { [fn |-> "ageGroupTags", variants |-> v] : v \in VariantLists(MaxVariants) }

HelperInit ==
    /\ hpc = "call" /\ hret = <<>>
    /\ \/ hargs \in HeaderCalls
       \/ hargs \in ColCalls
       \/ hargs \in AgeCalls
    /\ UiIdle /\ FileIdle /\ PriceIdle

\* detectHeaderRow(rawData): part_000:253
CallDetectHeaderRow ==
    /\ hpc = "call" /\ hargs.fn = "detectHeaderRow"
    /\ hret' = detectHeaderRow(hargs.data)
    /\ hpc' = "returned"
    /\ UNCHANGED <<hargs, uiVars, fileVars, priceVars>>

\* findColByNames(cols, [...]): part_000:273-284
CallFindColByNames ==
    /\ hpc = "call" /\ hargs.fn = "findColByNames"
    /\ hret' = findColByNames(hargs.cols, hargs.names)
    /\ hpc' = "returned"
    /\ UNCHANGED <<hargs, uiVars, fileVars, priceVars>>

\* getBoyAgeGroupTags(variants) and getGirlAgeGroupTags(variants):
\* part_000:457 and 461
CallAgeGroupTags ==
    /\ hpc = "call" /\ hargs.fn = "ageGroupTags"
    /\ hret' = [boy  |-> getBoyAgeGroupTags(hargs.variants),
                girl |-> getGirlAgeGroupTags(hargs.variants)]
    /\ hpc' = "returned"
    /\ UNCHANGED <<hargs, uiVars, fileVars, priceVars>>

HelperNext == CallDetectHeaderRow \/ CallFindColByNames \/ CallAgeGroupTags

SpecHelper == HelperInit /\ [][HelperNext]_vars

-----------------------------------------------------------------------------
(* Properties of SpecHelper *)

Returned(fn) == hpc = "returned" /\ hargs.fn = fn

\* the 0-based indices of the rows of which some cell, trimmed and
\* lower-cased, contains "title"
TitleRowIndices(data) ==
    { i \in 0..(Len(data) - 1) :
        \E j \in DOMAIN data[i + 1] :
            includes(toLowerCase(trim(data[i + 1][j])), <<"t","i","t","l","e">>) }

\* C12: detectHeaderRow returns the smallest row index i < min(8, number of
\* rows) such that some cell of row i, trimmed and lower-cased, contains
\* "title", and 0 when there is no such row among the first 8; rows of
\* unrelated text before it do not change the result, and a "title" row at
\* index 8 or later is never selected.
C12_DetectHeaderRow ==
    Returned("detectHeaderRow") =>
        LET early == { i \in TitleRowIndices(hargs.data) : i < 8 }
        IN  /\ hret < 8
            /\ early = {} => hret = 0
            /\ early # {} => /\ hret \in early
                             /\ \A k \in early : hret <= k

\* a table whose only "title" row is at index 8, behind eight decoy rows,
\* for which 0 is returned
C12_Witness ==
    /\ Returned("detectHeaderRow")
    /\ TitleRowIndices(hargs.data) = {8}
    /\ hret = 0

-----------------------------------------------------------------------------
(* Properties of SpecFile: variants, roles, description *)

\* the trimmed names of the size columns that fire for the record, in the
\* order of the header row
FiringInHeaderOrder(rec) ==
    LET Fires(c) == c \in Range(roleMap.sizeCols) /\ SizeFires(rec[c])
        hits == SelectSeq(headerRow, Fires)
    IN  [i \in DOMAIN hits |-> trim(hits[i])]

\* the variant of each variant row of the record processed last, read from
\* its Option1 value ("" is written for the variant "Default")
VariantsWritten ==
    [i \in 1..VariantRowCount(LastRecord) |-> lastRows[i]["Option1 value"]]

\* C13: the variants of a record are the trimmed names of exactly the size
\* columns whose cell is non-empty, not "0" and not "nan", in the order in
\* which those columns appear in the header row; when no size column fires
\* the only variant is "Default".
C13_VariantsInHeaderOrder ==
    (Processed /\ ~Skipped(LastRecord)) =>
        IF FiringInHeaderOrder(LastRecord) = <<>>
        THEN VariantsWritten = << <<>> >>
        ELSE VariantsWritten = FiringInHeaderOrder(LastRecord)


\* the candidates, by position, that some header matches exactly after
\* normalization
ExactCandidates(cols, names) ==
    { n \in DOMAIN names : \E c \in DOMAIN cols : normalize(cols[c]) = normalize(names[n]) }

\* the (candidate, header) pairs, by position, of the substring fallback:
\* the lower-cased candidate without whitespace is contained in the
\* lower-cased header without whitespace
SubstringPairs(cols, names) ==
    { p \in (DOMAIN names) \X (DOMAIN cols) :
        includes(squeeze(cols[p[2]]), squeeze(names[p[1]])) }

\* as SubstringPairs, the candidate sought in the header as it is written
LiteralSubstringPairs(cols, names) ==
    { p \in (DOMAIN names) \X (DOMAIN cols) :
        includes(cols[p[2]], squeeze(names[p[1]])) }

\* the first pair, scanning candidates and then headers
FirstPair(pairs) ==
    CHOOSE p \in pairs : \A q \in pairs : p[1] < q[1] \/ (p[1] = q[1] /\ p[2] <= q[2])

\* what findColByNames returns according to C14, given the pairs of the
\* substring fallback
ResolvedBy(cols, names, pairs) ==
    IF ExactCandidates(cols, names) # {}
    THEN LET n == CHOOSE x \in ExactCandidates(cols, names) :
                     \A y \in ExactCandidates(cols, names) : x <= y
             alike == { c \in DOMAIN cols : normalize(cols[c]) = normalize(names[n]) }
         IN  cols[CHOOSE c \in alike : \A d \in alike : d <= c]
    ELSE IF pairs # {} THEN cols[FirstPair(pairs)[2]]
    ELSE NULL

\* C14 as claimed: in the substring fallback the whitespace-stripped
\* lower-cased candidate is sought in the header itself.
C14_Original ==
    Returned("findColByNames") =>
        hret = ResolvedBy(hargs.cols, hargs.names,
                          LiteralSubstringPairs(hargs.cols, hargs.names))

\* C14: findColByNames returns the header matched by the first candidate, in
\* priority order, whose normalized form equals a header's normalized form,
\* the later header winning when several normalize alike; only when no
\* candidate matches exactly, the header of the first (candidate, header)
\* pair, scanning candidates then headers, where the lower-cased candidate
\* without whitespace is a substring of the lower-cased header without
\* whitespace; otherwise null. An exact match on a lower-priority candidate
\* therefore beats a substring match on a higher-priority candidate.
C14_FindColByNames ==
    Returned("findColByNames") =>
        /\ hret = ResolvedBy(hargs.cols, hargs.names,
                             SubstringPairs(hargs.cols, hargs.names))
        /\ ExactCandidates(hargs.cols, hargs.names) # {} =>
              \E n \in ExactCandidates(hargs.cols, hargs.names) :
                  normalize(hret) = normalize(hargs.names[n])

\* "Vendor", the second candidate, matches exactly and wins over
\* "Brand Name (old)", which contains the first candidate
C14_Witness ==
    /\ Returned("findColByNames")
    /\ hargs.cols = << <<"B","r","a","n","d"," ","N","a","m","e"," ","(","o","l","d",")">>, <<"V","e","n","d","o","r">> >>
    /\ hargs.names = BrandNames
    /\ hret = <<"V","e","n","d","o","r">>


\* the tags of a record before the age brackets are added: the values of
\* the role columns and the tags of the flag columns (part_000:394-453)
BaseTags(rec) ==
    FlagTags(headerRow, rec,
             RoleTags(<<roleMap.brandCol, roleMap.prodcatCol, roleMap.subcatCol,
                        roleMap.subsubCol, roleMap.subsubCol, roleMap.seasonCol,
                        roleMap.campaignCol, roleMap.sizesCol>>, rec))

\* a bracket matches when some normalized variant other than "Default"
\* equals one of its patterns or contains one of its patterns of length >= 3
BracketMatches(bracket, variants) ==
    \E v \in DOMAIN variants :
        /\ variants[v] # S_Default
        /\ \E p \in DOMAIN bracket.patterns :
              LET nv == normalizeSizeForMatching(variants[v])
                  pattern == bracket.patterns[p]
              IN  nv = pattern \/ (Len(pattern) >= 3 /\ includes(nv, pattern))

\* the tags of the matching boy brackets, in the order of the bracket table
BoyBracketTags(variants) ==
    LET Matching(b) == BracketMatches(b, variants)
        hits == SelectSeq(BoyAgeGroups, Matching)
    IN  [i \in DOMAIN hits |-> hits[i].tag]

\* C15: when the tag "Boy" is present for a record, each of the 8 boy
\* brackets gives its tag, once, exactly if some normalized variant other
\* than "Default" equals one of its patterns or contains one of length >= 3;
\* brackets are independent, so one variant can give several bracket tags,
\* and the tags follow "Boy" in the order of the bracket table.
C15_BoyAgeBrackets ==
    (/\ Processed /\ ~Skipped(LastRecord)
     /\ arrayIncludes(BaseTags(LastRecord), T_Boy)
     /\ ~arrayIncludes(BaseTags(LastRecord), T_Girl)) =>
        /\ Len(BoyAgeGroups) = 8
        /\ \A i \in 1..VariantRowCount(LastRecord) :
              lastRows[i]["Tags"] =
                  Join(BaseTags(LastRecord)
                       \o BoyBracketTags(VariantsOf(roleMap.sizeCols, LastRecord)),
                       <<","," ">>)

\* flag column Boy = 1 and the single variant "2-4M": two brackets
C15_Witness ==
    /\ Processed /\ ~Skipped(LastRecord)
    /\ VariantsOf(roleMap.sizeCols, LastRecord) = << <<"2","-","4","M">> >>
    /\ lastRows[1]["Tags"] = <<"B","o","y",","," ","B","o","y"," ","0","-","3","m",","," ","B","o","y"," ","3","-","6","m">>


\* the header has been read and the roles resolved
Mapped == fpc \in {"rows", "resolved"} /\ Len(rawData) > 0

\* the cells of the header row as they stand in the source
HeaderCells == rawData[detectHeaderRow(rawData) + 1]

\* the generated placeholder columns: those whose header cell is blank
PlaceholderCols == { headerRow[j] : j \in { k \in DOMAIN HeaderCells : trim(HeaderCells[k]) = <<>> } }

IsRealHeader(c) == c \notin PlaceholderCols

\* the headers that stand in the source
RealHeaders == SelectSeq(headerRow, IsRealHeader)

\* C16: no semantic role resolves to a generated placeholder column (a
\* column whose header cell was blank and was named "unnamed_..."); when no
\* real header matches a title candidate, the title role stays unresolved
\* and the title column is the one the fallback rule gives.
C16_NoRoleOnPlaceholder ==
    Mapped =>
        /\ \A r \in {"brandCol", "prodcatCol", "subcatCol", "subsubCol", "seasonCol",
                     "campaignCol", "sizesCol", "costCol", "mrpCol", "finalCol",
                     "sizeChartCol"} :
              roleMap[r] \notin PlaceholderCols
        /\ findColByNames(RealHeaders, TitleNames) # NULL =>
              roleMap.titleCol \notin PlaceholderCols
        /\ findColByNames(RealHeaders, TitleNames) = NULL =>
              roleMap.titleCol = FallbackTitleCol(headerRow, df)


\* the header is matched by one of the specification names
IsSpecificationCol(c) ==
    \E p \in DOMAIN SpecificationNames : findColByNames(<<c>>, <<SpecificationNames[p]>>) # NULL

SpecificationCols == { j \in DOMAIN headerRow : IsSpecificationCol(headerRow[j]) }

\* the first n characters of s
FirstChars(s, n) == SubSeq(s, 1, Min(n, Len(s)))

\* C17: Description holds the value of each source column at most once:
\* when exactly one specification-like column exists and its cell is
\* non-empty, Description is that cell's trimmed value and SEO description
\* its first 320 characters.
C17_DescriptionOnce ==
    (/\ Processed /\ ~Skipped(LastRecord)
     /\ Cardinality(SpecificationCols) = 1) =>
        LET c == headerRow[CHOOSE j \in SpecificationCols : TRUE]
            val == trim(LastRecord[c])
        IN  val # <<>> =>
              \A i \in 1..VariantRowCount(LastRecord) :
                  /\ lastRows[i]["Description"] = val
                  /\ lastRows[i]["SEO description"] = FirstChars(val, 320)


\* the bracket of a tag: the tag without its "Boy " or "Girl " prefix
BracketOf(tag, prefix) == SubSeq(tag, Len(prefix) + 1, Len(tag))

BracketsOf(tags, prefix) == { BracketOf(tags[i], prefix) : i \in DOMAIN tags }

\* C18: for every single size label of the curated size vocabulary, the
\* brackets getGirlAgeGroupTags gives are the brackets getBoyAgeGroupTags
\* gives, with the prefix "Girl" in place of "Boy".
C18_GirlBracketsAsBoy ==
    (Returned("ageGroupTags") /\ Len(hargs.variants) = 1) =>
        BracketsOf(hret.girl, <<"G","i","r","l"," ">>) = BracketsOf(hret.boy, <<"B","o","y"," ">>)

=============================================================================
